---- MODULE Spec2Model ----
(***************************************************************************)
(* Model of the resilient RPC execution core of solbot                     *)
(* (src/src/services/RPCService.js): provider selection with per-provider  *)
(* rate limiting, the global circuit breaker, the request queue, the       *)
(* health check and executeRequestWithRetry.                               *)
(*                                                                         *)
(* Time is Date.now() in milliseconds.  The clock advances in steps of     *)
(* TickMs; a timer (setTimeout / setInterval) may fire at any clock value  *)
(* at or after its due time, as on a busy event loop.  Code between two    *)
(* real suspension points (a network call, a timer, the request queue) is  *)
(* one action: awaiting an async function whose body has no real           *)
(* suspension resumes in the same macrotask.                               *)
(***************************************************************************)
EXTENDS Integers, Sequences, FiniteSets, TLC

\* ---------------------------------------------------------------- bounds
MaxCalls == 3          \* executeRequest invocations alive at the same time
MaxStarts == 7         \* executeRequest invocations that pass the breaker
MaxSelects == 3        \* the same, in the specification of provider selection
MaxTicks == 4          \* clock steps over a whole behaviour
MaxRetryTicks == 5     \* the same, in the specification of the retry loop
MaxFailoverTicks == 9  \* the same, for a request whose attempts all time out
MaxCacheTicks == 7     \* the same, in the specification of the cache
MaxHealthTicks == 7    \* the same, over two rounds of the health check
MaxHealthStarts == 2   \* executeRequest invocations in that specification
MaxBreakerStarts == 6  \* the same, for a retrying caller among direct ones
MaxBreakerTicks == 2   \* clock steps in that specification
MaxItems == 3          \* items of a batchRequest call
MaxBatchSize == 3      \* its batchSize argument
maxWorkers == 1        \* os.cpus().length, scaled
MaxProcs == 2          \* processBatch invocations of BatchService
MaxTasks == 2          \* tasks of one processBatch call
retries == 2           \* its retries option (3 when left out)
TickMs == 10000        \* granularity of the clock
\* Configuration values scaled down so that their limits are reached
\* (api.config.js: maxRequests 100 / 80; RPCService.js: concurrency 20).
maxRequestsPrimary == 2
maxRequestsFallback == 1
concurrency == 2

\* ------------------------------------------------------ program constants
StartTime == 100000        \* Date.now() at construction, past every timeout
failureThreshold == 5
resetTimeout == 30000
interval == 10000
maxRetries == 3
initialDelay == 1000
maxDelay == 5000
requestTimeout == 15000
providerWait == 1000
healthCheckInterval == 30000
cacheTimeout == 60000
batchRetries == 3

ProviderNames == {"primary", "fallback"}
CallIds == 1..MaxCalls
ReqIds == {1}             \* one caller of executeRequestWithRetry

\* Error messages, as the words they are made of (String.includes is
\* modelled on words).
ErrorWords ==
  [ConnRefused   |-> <<"connect", "ECONNREFUSED", "Connection refused">>,
   TooMany       |-> <<"429", "Too Many Requests">>,
   Unavailable   |-> <<"503", "Service Unavailable">>,
   InvalidParams |-> <<"Invalid", "params">>,
   TimeoutUpper  |-> <<"Gateway", "Timeout">>,
   RequestTimeout |-> <<"Request", "timeout">>,
   CircuitOpen   |-> <<"Circuit", "breaker", "is", "open">>]
\* errors a provider call can reject with
ProviderErrors == {"ConnRefused", "InvalidParams"}
Jitters == {0, 999}        \* Math.random() * 1000

Range(s) == {s[i] : i \in DOMAIN s}
Other(name) == IF name = "primary" THEN "fallback" ELSE "primary"
Min(a, b) == IF a < b THEN a ELSE b

rateLimit(name) ==
  [maxRequests |-> IF name = "primary" THEN maxRequestsPrimary
                   ELSE maxRequestsFallback,
   interval |-> interval]
retry(name) ==
  [maxRetries |-> maxRetries, initialDelay |-> initialDelay,
   maxDelay |-> maxDelay]

VARIABLES
  now,               \* Date.now()
  ticks,             \* clock steps taken
  circuitBreaker,    \* [isOpen, failureCount, lastFailureTime]
  providers,         \* name -> [isHealthy, requestCount, lastRequest]
  currentProvider,
  failureCounts,     \* name -> failed health probes
  metrics,           \* [requestCount, errorCount, methodStats]
  calls,             \* executeRequest invocations
  requestQueue,      \* jobs waiting in the PQueue, oldest first
  reqs,              \* executeRequestWithRetry invocations
  healthCheck,       \* [pc, due] position of the setInterval callback, the
                     \* outcome of the probe settled last, and the
                     \* time at which a probe made a provider healthy again
  startLimit,        \* bound on the executeRequest invocations
  tickLimit,         \* bound on the clock steps
  thrown,            \* what the latest executeRequest call threw at once
  consecutiveFailures, \* failed provider calls since the last successful one
  admitted           \* name -> times of the provider calls of the last window

\* one run of the retry loop's delay computation
VARIABLES
  retryOptions,      \* the { maxRetries, initialDelay, maxDelay } it runs with
  delays             \* per failed attempt so far: [delay, slept]

delayVars == <<retryOptions, delays>>

\* getBlock / getTransaction and their cache
VARIABLES
  cache,             \* key -> [present, value, now] of the LRU cache
  lookups            \* getBlock / getTransaction invocations

cacheVars == <<cache, lookups>>

\* one batchRequest invocation
VARIABLES
  batchReq

batchVars == <<batchReq>>

\* BatchService and its worker threads
VARIABLES
  workerPool,        \* slot -> [worker, isBusy]
  taskQueue,         \* the resolvers of the processBatch calls that wait
  threads,           \* Worker handle -> [state, inbox, listeners]
  procs              \* processBatch invocations

poolVars == <<workerPool, taskQueue, threads, procs>>

\* the state outside the RPC request path
extraVars == <<delayVars, cacheVars, batchVars, poolVars>>

vars == <<now, ticks, circuitBreaker, providers, currentProvider,
          failureCounts, metrics, calls, requestQueue, reqs, healthCheck,
          startLimit, tickLimit, thrown, consecutiveFailures, admitted,
          extraVars>>

\* ------------------------------------------------------------ rate limiter
\* a check that counts the calls it refuses
_checkRateLimit_counts(provider, name, t) ==
  IF t - provider.lastRequest < rateLimit(name).interval
  THEN IF provider.requestCount >= rateLimit(name).maxRequests
       THEN [allowed |-> FALSE,
             provider |-> [provider EXCEPT !.requestCount = @ + 1]]
       ELSE [allowed |-> TRUE, provider |-> provider]
  ELSE [allowed |-> TRUE,
        provider |-> [provider EXCEPT !.requestCount = 0, !.lastRequest = t]]

_checkRateLimit(provider, name, t) ==
  IF t - provider.lastRequest < rateLimit(name).interval
  THEN IF provider.requestCount >= rateLimit(name).maxRequests
       THEN [allowed |-> FALSE, provider |-> provider]
       ELSE [allowed |-> TRUE, provider |-> provider]
  ELSE [allowed |-> TRUE,
        provider |-> [provider EXCEPT !.requestCount = 0, !.lastRequest = t]]

\* ------------------------------------------------------- provider selector
\* _getOptimalProvider falling back to the other provider without looking
\* at its health flag
_getOptimalProvider_otherUnchecked(provs, cur, t) ==
  LET current == provs[cur]
      rc == _checkRateLimit(current, cur, t)
      provs1 == IF current.isHealthy
                THEN [provs EXCEPT ![cur] = rc.provider] ELSE provs
      otherProvider == Other(cur)
      ro == _checkRateLimit(provs1[otherProvider], otherProvider, t)
      provs2 == [provs1 EXCEPT ![otherProvider] = ro.provider]
  IN IF current.isHealthy /\ rc.allowed
     THEN [found |-> TRUE, name |-> cur, providers |-> provs1,
           currentProvider |-> cur]
     ELSE IF ro.allowed
     THEN [found |-> TRUE, name |-> otherProvider, providers |-> provs2,
           currentProvider |-> otherProvider]
     ELSE [found |-> FALSE, name |-> "none", providers |-> provs2,
           currentProvider |-> cur]

\* One pass of _getOptimalProvider, up to the return or the 1 s wait.
_getOptimalProvider(provs, cur, t) ==
  LET current == provs[cur]
      rc == _checkRateLimit(current, cur, t)
      provs1 == IF current.isHealthy
                THEN [provs EXCEPT ![cur] = rc.provider] ELSE provs
      otherProvider == Other(cur)
      other == provs1[otherProvider]
      ro == _checkRateLimit(other, otherProvider, t)
      provs2 == IF other.isHealthy
                THEN [provs1 EXCEPT ![otherProvider] = ro.provider] ELSE provs1
  IN IF current.isHealthy /\ rc.allowed
     THEN [found |-> TRUE, name |-> cur, providers |-> provs1,
           currentProvider |-> cur]
     ELSE IF other.isHealthy /\ ro.allowed
     THEN [found |-> TRUE, name |-> otherProvider, providers |-> provs2,
           currentProvider |-> otherProvider]
     ELSE [found |-> FALSE, name |-> "none", providers |-> provs2,
           currentProvider |-> cur]

\* --------------------------------------------------------- circuit breaker
_checkCircuitBreaker(cb, t) ==
  IF ~cb.isOpen THEN [ok |-> TRUE, cb |-> cb]
  ELSE IF t - cb.lastFailureTime > resetTimeout
  THEN [ok |-> TRUE, cb |-> [cb EXCEPT !.isOpen = FALSE, !.failureCount = 0]]
  ELSE [ok |-> FALSE, cb |-> cb]

_updateCircuitBreaker(cb, t) ==
  LET n == cb.failureCount + 1
  IN [isOpen |-> IF n >= failureThreshold THEN TRUE ELSE cb.isOpen,
      failureCount |-> n,
      lastFailureTime |-> t]

\* ------------------------------------------------------------------ retry
Includes(words, msg) == \E i \in DOMAIN words : words[i] = msg

retryableErrors ==
  {"Connection refused", "timeout", "Too Many Requests", "Service Unavailable"}

\* _shouldRetry that takes the error of the open breaker for retryable
_shouldRetry_breakerToo(error) ==
  \/ error = "CircuitOpen"
  \/ \E msg \in retryableErrors : Includes(ErrorWords[error], msg)

\* _shouldRetry with `some(msg => error.message)`: any message is retryable
_shouldRetry_anyMessage(error) == ErrorWords[error] # <<>>

_shouldRetry(error) ==
  \E msg \in retryableErrors : Includes(ErrorWords[error], msg)

Pow2(n) == IF n = 0 THEN 1 ELSE IF n = 1 THEN 2 ELSE IF n = 2 THEN 4
           ELSE IF n = 3 THEN 8 ELSE 16

\* the delay without Math.min(..., maxDelay)
retryDelay_uncapped(options, attempt) == options.initialDelay * Pow2(attempt)

\* const delay = Math.min(initialDelay * Math.pow(2, attempt), maxDelay)
retryDelay(options, attempt) ==
  Min(options.initialDelay * Pow2(attempt), options.maxDelay)

delay(attempt, name) == retryDelay(retry(name), attempt)


\* ------------------------------------------------------------------ cache
\* `block:${slot}` and `tx:${signature}`
CacheKeys == {<<"block", 1>>, <<"tx", 1>>}
\* what the live path resolves with: a block or transaction, or null (the
\* node does not have it)
LiveValues == {"data", "null"}
Truthy(v) == v \notin {"null", "undefined"}
NoEntry == [present |-> FALSE, value |-> "undefined", now |-> 0]

\* lru-cache with maxAge: an entry older than maxAge is stale
isStale(entry, t) == entry.present /\ t - entry.now > cacheTimeout

\* cache.get(key): a stale entry is dropped and undefined is returned
_getCachedData(c, key, t) ==
  IF ~c[key].present THEN [value |-> "undefined", cache |-> c]
  ELSE IF isStale(c[key], t)
  THEN [value |-> "undefined", cache |-> [c EXCEPT ![key] = NoEntry]]
  ELSE [value |-> c[key].value, cache |-> c]

\* cache.set(key, data)
_setCacheData(c, key, data, t) ==
  [c EXCEPT ![key] = [present |-> TRUE, value |-> data, now |-> t]]

\* getBlock that also caches under the key when the live path has thrown
getBlockResume_cachesError(c, key, outcome, t) ==
  _setCacheData(c, key, outcome.value, t)

\* getBlock / getTransaction after `await this.executeRequestWithRetry(...)`:
\* the cache after the call has returned or thrown
getBlockResume(c, key, outcome, t) ==
  IF outcome.ok THEN _setCacheData(c, key, outcome.value, t) ELSE c

\* ------------------------------------------------------------------ state
FreeCall ==
  [pc |-> "free", owner |-> 0, provider |-> "none", due |-> 0,
   probe |-> FALSE]
ItemIds == 1..MaxItems
\* results: <<[of]>>, the value item `of` resolved with; errors:
\* <<[of, item, error]>>, where item is 0 for an entry without item field;
\* dispatched: the chunks handed to executeRequestWithRetry so far;
\* outcome: what the call of each item settled with
IdleBatch ==
  [pc |-> "idle", n |-> 0, batchSize |-> 0, i |-> 0, retryCount |-> 0,
   outcome |-> [k \in ItemIds |-> "none"], results |-> <<>>,
   errors |-> <<>>, dispatched |-> <<>>]
Slots == 1..maxWorkers
Handles == 1..(2 * maxWorkers)     \* the Worker objects ever created
ProcIds == 1..MaxProcs
\* what a `worker` parameter can refer to: an entry of workerPool, or an
\* object that is no entry of it (an event's payload)
SlotRef(s) == [kind |-> "slot", slot |-> s]
MessageRef == [kind |-> "message", slot |-> 0]
ErrorRef == [kind |-> "error", slot |-> 0]
NoRef == [kind |-> "none", slot |-> 0]
NoMessage == [successes |-> <<>>, errors |-> <<>>]
IdleProc ==
  [pc |-> "idle", tasks |-> <<>>, batchSize |-> 1, i |-> 1, attempt |-> 0,
   worker |-> NoRef, batchResults |-> NoMessage,
   results |-> <<>>, errors |-> <<>>,
   delay |-> 0,        \* the wait of the backoff in progress, in ms
   waits |-> <<>>]     \* the waits of the chunk dispatched last, in order
LookupIds == {1, 2}        \* two callers of getBlock / getTransaction
\* staleValue: the value of the expired entry the call found, if any;
\* flip changes at every call
IdleLookup ==
  [pc |-> "idle", key |-> <<"none", 0>>, value |-> "undefined",
   staleValue |-> "undefined", flip |-> FALSE]
IdleReq ==
  [pc |-> "idle", attempt |-> 0, call |-> 0, due |-> 0, maxRetries |-> 0,
   provider |-> "none", lastError |-> "none", log |-> <<>>]

InitState ==
  /\ now = StartTime
  /\ ticks = 0
  /\ circuitBreaker =
       [isOpen |-> FALSE, failureCount |-> 0, lastFailureTime |-> 0]
  /\ providers =
       [n \in ProviderNames |->
          [isHealthy |-> TRUE, requestCount |-> 0, lastRequest |-> 0]]
  /\ currentProvider = "primary"
  /\ failureCounts = [n \in ProviderNames |-> 0]
  /\ metrics = [requestCount |-> 0, errorCount |-> 0,
                methodStats |-> [count |-> 0, errors |-> 0]]
  /\ calls = [c \in CallIds |-> FreeCall]
  /\ requestQueue = <<>>
  /\ reqs = [r \in ReqIds |-> IdleReq]
  /\ healthCheck = [pc |-> "idle", due |-> StartTime + healthCheckInterval,
                    outcome |-> "none",
                    restored |-> [n \in ProviderNames |-> 0]]
  /\ thrown = "none"
  /\ consecutiveFailures = 0
  /\ admitted = [n \in ProviderNames |-> <<>>]
  /\ retryOptions = [maxRetries |-> 0, initialDelay |-> 0, maxDelay |-> 0]
  /\ delays = <<>>
  /\ cache = [k \in CacheKeys |-> NoEntry]
  /\ lookups = [g \in LookupIds |-> IdleLookup]
  /\ batchReq = IdleBatch
  /\ workerPool = [s \in Slots |-> [worker |-> s, isBusy |-> FALSE]]
  /\ taskQueue = <<>>
  /\ threads = [h \in Handles |->
                  [state |-> IF h \in Slots THEN "alive" ELSE "unborn",
                   inbox |-> <<>>, listeners |-> <<>>]]
  /\ procs = [c \in ProcIds |-> IdleProc]

Init == InitState /\ startLimit = MaxStarts /\ tickLimit = MaxTicks
InitSelect == InitState /\ startLimit = MaxSelects /\ tickLimit = MaxTicks
InitHealth ==
  InitState /\ startLimit = MaxHealthStarts /\ tickLimit = MaxHealthTicks
InitBreaker ==
  InitState /\ startLimit = MaxBreakerStarts /\ tickLimit = MaxBreakerTicks
InitRetry == InitState /\ startLimit = MaxStarts /\ tickLimit = MaxRetryTicks
InitFailover ==
  InitState /\ startLimit = MaxStarts /\ tickLimit = MaxFailoverTicks
InitCache == InitState /\ startLimit = MaxStarts /\ tickLimit = MaxCacheTicks

\* The part of the state the request path works on, as one record, so that
\* the steps of one handler compose.
Core ==
  [cb |-> circuitBreaker, providers |-> providers,
   currentProvider |-> currentProvider, metrics |-> metrics,
   calls |-> calls, requestQueue |-> requestQueue, reqs |-> reqs,
   thrown |-> thrown,
   consecutiveFailures |-> consecutiveFailures, admitted |-> admitted]

SetCore(S) ==
  /\ circuitBreaker' = S.cb
  /\ providers' = S.providers
  /\ currentProvider' = S.currentProvider
  /\ metrics' = S.metrics
  /\ calls' = S.calls
  /\ requestQueue' = S.requestQueue
  /\ reqs' = S.reqs
  /\ thrown' = S.thrown
  /\ consecutiveFailures' = S.consecutiveFailures
  /\ admitted' = S.admitted

FreeCalls(cs) == {c \in CallIds : cs[c].pc = "free"}
LowestFree(cs) == CHOOSE c \in FreeCalls(cs) : \A d \in FreeCalls(cs) : c <= d
\* PQueue: jobs started and not yet settled
Pending(cs) == Cardinality({c \in CallIds : cs[c].pc \in {"waiting", "invoked"}})
InWindow(times, t) == SelectSeq(times, LAMBDA x : x > t - interval)

\* healthy and not at its rate limit in the window that t lies in
Usable(provider, name, t) ==
  /\ provider.isHealthy
  /\ ~(/\ t - provider.lastRequest < rateLimit(name).interval
       /\ provider.requestCount >= rateLimit(name).maxRequests)

\* --------------------------------------------------------- executeRequest
\* The queued job of executeRequest from `await this._getOptimalProvider()`
\* to the invocation of provider.connection[method], or to the 1 s wait.
RunJob(S, c) ==
  LET sel == _getOptimalProvider(S.providers, S.currentProvider, now)
      r == S.calls[c].owner
      S1 == [S EXCEPT !.providers = sel.providers,
                      !.currentProvider = sel.currentProvider]
  IN IF sel.found
     THEN [S1 EXCEPT
             !.calls[c].pc = "invoked",
             !.calls[c].provider = sel.name,
             !.calls[c].due = 0,
             !.admitted[sel.name] = Append(InWindow(@, now), now),
             !.reqs = IF r # 0
                      THEN [@ EXCEPT ![r].log[Len(S.reqs[r].log)] =
                              [provider |-> sel.name, outcome |-> "pending",
                               fallbackUsable |->
                                 Usable(S.providers["fallback"], "fallback", now)]]
                      ELSE @]
     ELSE [S1 EXCEPT !.calls[c].pc = "waiting",
                     !.calls[c].due = now + providerWait]

\* a queue that starts every job at once
PQueueAdd_unbounded(S, c) == RunJob(S, c)

\* requestQueue.add(job): the job starts at once when fewer than
\* `concurrency` jobs are running, and waits in the queue otherwise.
PQueueAdd(S, c) ==
  IF Pending(S.calls) < concurrency
  THEN RunJob(S, c)
  ELSE [S EXCEPT !.calls[c].pc = "queued", !.requestQueue = Append(@, c)]

\* PQueue after a job has settled: the oldest waiting job starts.
PQueueNext(S) ==
  IF S.requestQueue # <<>> /\ Pending(S.calls) < concurrency
  THEN RunJob([S EXCEPT !.requestQueue = Tail(@)], Head(S.requestQueue))
  ELSE S

\* executeRequest(method, ...args) called by `owner` (0: a direct caller)
\* in call slot c, up to its first real suspension.
executeRequest(S, c, owner) ==
  LET chk == _checkCircuitBreaker(S.cb, now)
      S1 == [S EXCEPT !.cb = chk.cb,
                      !.calls[c] = [FreeCall EXCEPT !.owner = owner,
                                                    !.probe = chk.cb # S.cb]]
  IN IF ~chk.ok
     THEN [S1 EXCEPT !.calls[c] = FreeCall, !.thrown = "CircuitOpen"]
     ELSE PQueueAdd([S1 EXCEPT !.thrown = "none"], c)

\* _updateMetrics(method, responseTime, isError), for the one method of the
\* model: the counters
_updateMetrics(m, isError) ==
  [requestCount |-> m.requestCount + 1,
   errorCount |-> IF isError THEN m.errorCount + 1 ELSE m.errorCount,
   methodStats |->
     [count |-> m.methodStats.count + 1,
      errors |-> IF isError THEN m.methodStats.errors + 1
                 ELSE m.methodStats.errors]]

\* The provider call of slot c has settled with `outcome` ("ok" or an error):
\* the try / catch of executeRequest, then the queue starts its next job.
Settle(S, c, outcome) ==
  LET p == S.calls[c].provider
      S1 == IF outcome = "ok"
            THEN [S EXCEPT !.metrics = _updateMetrics(@, FALSE),
                           !.providers[p].requestCount = @ + 1,
                           !.consecutiveFailures = 0]
            ELSE [S EXCEPT !.metrics.errorCount = @ + 1,
                           !.cb = _updateCircuitBreaker(@, now),
                           !.consecutiveFailures = @ + 1]
  IN PQueueNext([S1 EXCEPT !.calls[c] = FreeCall])

\* ------------------------------------------------ executeRequestWithRetry
\* The catch block without `if (attempt === maxRetries) break`
HandleError_noBreak(S, r, error, jitter) ==
  LET q == [S.reqs[r] EXCEPT !.lastError = error, !.call = 0,
                             !.log[Len(S.reqs[r].log)].outcome = error]
  IN IF ~_shouldRetry(error)
     THEN [S EXCEPT !.reqs[r] = [q EXCEPT !.pc = "threw", !.due = 0]]
     ELSE [S EXCEPT !.reqs[r] =
             [q EXCEPT !.pc = "backoff",
                       !.due = now + delay(q.attempt, q.provider) + jitter]]

\* The catch block of the retry loop.
HandleError(S, r, error, jitter) ==
  LET q == [S.reqs[r] EXCEPT !.lastError = error, !.call = 0,
                             !.log[Len(S.reqs[r].log)].outcome = error]
  IN IF q.attempt = q.maxRetries
     THEN [S EXCEPT !.reqs[r] = [q EXCEPT !.pc = "threw", !.due = 0]]
     ELSE IF ~_shouldRetry(error)
     THEN [S EXCEPT !.reqs[r] = [q EXCEPT !.pc = "threw", !.due = 0]]
     ELSE [S EXCEPT !.reqs[r] =
             [q EXCEPT !.pc = "backoff",
                       !.due = now + delay(q.attempt, q.provider) + jitter]]

\* One iteration of the loop: the timeout promise, then executeRequest.
Attempt(S, r, jitter) ==
  LET c == LowestFree(S.calls)
      S1 == [S EXCEPT !.reqs[r].pc = "racing",
                      !.reqs[r].call = c,
                      !.reqs[r].due = now + requestTimeout,
                      !.reqs[r].log =
                         Append(@, [provider |-> "none", outcome |-> "pending",
                                    fallbackUsable |-> FALSE])]
      S2 == executeRequest(S1, c, r)
  IN IF S2.calls[c].pc = "free"
     THEN HandleError(S2, r, S2.thrown, jitter)
     ELSE S2

\* executeRequestWithRetry from its first line: select a provider for the
\* retry options, then the first attempt.
Begin(S, r, jitter) ==
  LET sel == _getOptimalProvider(S.providers, S.currentProvider, now)
      S1 == [S EXCEPT !.providers = sel.providers,
                      !.currentProvider = sel.currentProvider]
  IN IF sel.found
     THEN Attempt([S1 EXCEPT !.reqs[r].provider = sel.name,
                             !.reqs[r].maxRetries = retry(sel.name).maxRetries,
                             !.reqs[r].attempt = 0],
                  r, jitter)
     ELSE [S1 EXCEPT !.reqs[r].pc = "selecting",
                     !.reqs[r].due = now + providerWait]

\* Delivery of the settled executeRequest promise to the retry loop racing on it.
Deliver(S, r, c, outcome, jitter) ==
  IF r # 0 /\ S.reqs[r].pc = "racing" /\ S.reqs[r].call = c
  THEN IF outcome = "ok"
       THEN [S EXCEPT !.reqs[r].pc = "returned", !.reqs[r].call = 0,
                      !.reqs[r].due = 0,
                      !.reqs[r].log[Len(S.reqs[r].log)].outcome = "ok"]
       ELSE HandleError(S, r, outcome, jitter)
  ELSE S

\* ---------------------------------------------------------------- actions
\* provider.connection[method] invocations so far: the settled ones are
\* counted by the metrics, the others are in flight
providerCalls ==
  metrics.requestCount + metrics.errorCount
    + Cardinality({c \in CallIds : calls[c].pc = "invoked"})
\* executeRequest invocations that passed the breaker check so far
Started ==
  metrics.requestCount + metrics.errorCount
    + Cardinality({c \in CallIds : calls[c].pc # "free"})
Others ==
  <<now, ticks, failureCounts, healthCheck, startLimit, tickLimit, extraVars>>

\* a direct caller calls executeRequest
ExecuteRequest ==
  /\ Started < startLimit
  /\ FreeCalls(calls) # {}
  /\ SetCore(executeRequest(Core, LowestFree(calls), 0))
  /\ UNCHANGED Others

\* the 1 s wait of _getOptimalProvider inside a job is over
ProviderWaitDone(c) ==
  /\ calls[c].pc = "waiting"
  /\ now >= calls[c].due
  /\ SetCore(RunJob(Core, c))
  /\ UNCHANGED Others

\* a provider call resolves or rejects
ProviderSettles(c) ==
  /\ calls[c].pc = "invoked"
  /\ \E outcome \in {"ok"} \cup ProviderErrors, jitter \in Jitters :
       SetCore(Deliver(Settle(Core, c, outcome), calls[c].owner, c,
                       outcome, jitter))
  /\ UNCHANGED Others

\* a caller calls executeRequestWithRetry
ExecuteRequestWithRetry(r) ==
  /\ reqs[r].pc = "idle"
  /\ Started < startLimit
  /\ FreeCalls(calls) # {}
  /\ \E jitter \in Jitters : SetCore(Begin(Core, r, jitter))
  /\ UNCHANGED Others

\* the 1 s wait of the _getOptimalProvider call at the head of
\* executeRequestWithRetry is over
RetrySelectDone(r) ==
  /\ reqs[r].pc = "selecting"
  /\ now >= reqs[r].due
  /\ Started < startLimit
  /\ FreeCalls(calls) # {}
  /\ \E jitter \in Jitters : SetCore(Begin(Core, r, jitter))
  /\ UNCHANGED Others

\* the 15 s timeout promise rejects first
RetryTimeout(r) ==
  /\ reqs[r].pc = "racing"
  /\ now >= reqs[r].due
  /\ \E jitter \in Jitters :
       SetCore(HandleError([Core EXCEPT !.calls[reqs[r].call].owner = 0],
                           r, "RequestTimeout", jitter))
  /\ UNCHANGED Others

\* the backoff delay is over: next iteration of the loop
RetryBackoffDone(r) ==
  /\ reqs[r].pc = "backoff"
  /\ now >= reqs[r].due
  /\ Started < startLimit
  /\ FreeCalls(calls) # {}
  /\ \E jitter \in Jitters :
       SetCore(Attempt([Core EXCEPT !.reqs[r].attempt = @ + 1], r, jitter))
  /\ UNCHANGED Others

\* the setInterval callback of _startHealthCheck starts its loop
HealthCheckFires ==
  /\ healthCheck.pc = "idle"
  /\ now >= healthCheck.due
  /\ healthCheck' = [healthCheck EXCEPT !.pc = "primary",
                                         !.due = now + healthCheckInterval]
  /\ UNCHANGED <<now, ticks, circuitBreaker, providers, currentProvider,
                 failureCounts, metrics, calls, requestQueue, reqs,
                 startLimit, tickLimit, thrown, consecutiveFailures,
                 admitted, extraVars>>

\* a probe that can only take the flag away
ProbeResult_sticky(provider, ok) ==
  [provider EXCEPT !.isHealthy = @ /\ ok]

\* provider.isHealthy = true / false after the probe
ProbeResult(provider, ok) ==
  [provider EXCEPT !.isHealthy = ok]

\* getHealth() of the provider under probe resolves (ok) or rejects
HealthProbeSettles(ok) ==
  /\ healthCheck.pc \in ProviderNames
  /\ LET name == healthCheck.pc
     IN /\ providers' =
             [providers EXCEPT ![name] = ProbeResult(@, ok)]
        /\ failureCounts' =
             [failureCounts EXCEPT ![name] = IF ok THEN 0 ELSE @ + 1]
        /\ healthCheck' =
             [healthCheck EXCEPT
                !.pc = IF name = "primary" THEN "fallback" ELSE "idle",
                !.outcome = IF ok THEN "ok" ELSE "failed",
                !.restored[name] = IF ok /\ ~providers[name].isHealthy
                                   THEN now ELSE @]
  /\ UNCHANGED <<now, ticks, circuitBreaker, currentProvider, metrics, calls,
                 requestQueue, reqs, startLimit, tickLimit, thrown,
                 consecutiveFailures, admitted, extraVars>>

\* the clock advances
Tick ==
  /\ ticks < tickLimit
  /\ now' = now + TickMs
  /\ ticks' = ticks + 1
  /\ admitted' = [n \in ProviderNames |-> InWindow(admitted[n], now')]
  /\ UNCHANGED <<circuitBreaker, providers, currentProvider, failureCounts,
                 metrics, calls, requestQueue, reqs, healthCheck, startLimit,
                 tickLimit, thrown, consecutiveFailures, extraVars>>

\* direct callers of executeRequest and the clock
Next ==
  \/ ExecuteRequest
  \/ \E c \in CallIds : ProviderWaitDone(c)
  \/ \E c \in CallIds : ProviderSettles(c)
  \/ Tick

Spec == Init /\ [][Next]_vars

\* the same with the health check, which makes providers unhealthy
NextSelect ==
  \/ ExecuteRequest
  \/ \E c \in CallIds : ProviderWaitDone(c)
  \/ \E c \in CallIds : ProviderSettles(c)
  \/ HealthCheckFires
  \/ \E ok \in BOOLEAN : HealthProbeSettles(ok)
  \/ Tick

SelectSpec == InitSelect /\ [][NextSelect]_vars

\* the same, with fewer callers over a longer time
HealthSpec == InitHealth /\ [][NextSelect]_vars

\* one caller of executeRequestWithRetry, the calls of its attempts, the
\* health check and the clock
NextRetry ==
  \/ \E c \in CallIds : ProviderWaitDone(c)
  \/ \E c \in CallIds : ProviderSettles(c)
  \/ \E r \in ReqIds : ExecuteRequestWithRetry(r)
  \/ \E r \in ReqIds : RetrySelectDone(r)
  \/ \E r \in ReqIds : RetryTimeout(r)
  \/ \E r \in ReqIds : RetryBackoffDone(r)
  \/ HealthCheckFires
  \/ \E ok \in BOOLEAN : HealthProbeSettles(ok)
  \/ Tick

RetrySpec == InitRetry /\ [][NextRetry]_vars

\* one caller of executeRequestWithRetry over a horizon long enough for all
\* its attempts to time out, while every health probe succeeds: the health
\* check then changes nothing, and a single caller never exhausts a rate
\* limit window, so that no selection ever waits (NoSelectionWaits)
NextFailover ==
  \/ \E c \in CallIds : ProviderSettles(c)
  \/ \E r \in ReqIds : ExecuteRequestWithRetry(r)
  \/ \E r \in ReqIds : RetryTimeout(r)
  \/ \E r \in ReqIds : RetryBackoffDone(r)
  \/ Tick

FailoverSpec == InitFailover /\ [][NextFailover]_vars

\* one caller of executeRequestWithRetry among direct callers of
\* executeRequest, whose failures open the breaker
NextBreaker ==
  \/ ExecuteRequest
  \/ \E c \in CallIds : ProviderWaitDone(c)
  \/ \E c \in CallIds : ProviderSettles(c)
  \/ \E r \in ReqIds : ExecuteRequestWithRetry(r)
  \/ \E r \in ReqIds : RetrySelectDone(r)
  \/ \E r \in ReqIds : RetryTimeout(r)
  \/ \E r \in ReqIds : RetryBackoffDone(r)
  \/ Tick

BreakerSpec == InitBreaker /\ [][NextBreaker]_vars

NoSelectionWaits ==
  /\ \A c \in CallIds : calls[c].pc # "waiting"
  /\ \A r \in ReqIds : reqs[r].pc # "selecting"

\* ------------------------------------------------------ the retry delays
\* retry options a provider can be configured with (api.config.js has
\* initialDelay 1000, maxDelay 5000 for both providers)
InitialDelays == {500, 1000, 3000}
MaxDelays == {1000, 5000, 8000}
rpcVars ==
  <<now, ticks, circuitBreaker, providers, currentProvider, failureCounts,
    metrics, calls, requestQueue, reqs, healthCheck, startLimit, tickLimit,
    thrown, consecutiveFailures, admitted>>

\* executeRequestWithRetry reads the retry options of the selected provider
ReadRetryOptions ==
  /\ retryOptions.initialDelay = 0
  /\ \E i \in InitialDelays, m \in MaxDelays :
       retryOptions' = [maxRetries |-> maxRetries, initialDelay |-> i,
                        maxDelay |-> m]
  /\ UNCHANGED <<delays, rpcVars, cacheVars, batchVars, poolVars>>

\* an attempt has failed with a retryable error: the delay is computed and
\* the loop sleeps delay + jitter
ComputeDelay ==
  /\ retryOptions.initialDelay # 0
  /\ Len(delays) < retryOptions.maxRetries
  /\ \E jitter \in Jitters :
       LET d == retryDelay(retryOptions, Len(delays))
       IN delays' = Append(delays, [delay |-> d, slept |-> d + jitter])
  /\ UNCHANGED <<retryOptions, rpcVars, cacheVars, batchVars, poolVars>>

NextDelay == ReadRetryOptions \/ ComputeDelay

DelaySpec == Init /\ [][NextDelay]_vars

\* ------------------------------------------- getBlock / getTransaction
\* The live path of a lookup is executeRequestWithRetry, taken here by what
\* its caller sees of it: it is called, and later it resolves with a value
\* or throws.
rpcFrozen ==
  <<circuitBreaker, providers, currentProvider, failureCounts, metrics, calls,
    requestQueue, reqs, healthCheck, startLimit, tickLimit, thrown,
    consecutiveFailures, admitted>>

\* getBlock(slot) / getTransaction(signature) up to its return on a cache
\* hit or to the call of executeRequestWithRetry
GetCached(g, key) ==
  /\ lookups[g].pc # "fetching"
  /\ LET got == _getCachedData(cache, key, now)
     IN /\ cache' = got.cache
        /\ lookups' =
             [lookups EXCEPT ![g] =
                IF Truthy(got.value)
                THEN [pc |-> "returned", key |-> key, value |-> got.value,
                      staleValue |-> "undefined", flip |-> ~lookups[g].flip]
                ELSE [pc |-> "fetching", key |-> key, value |-> "undefined",
                      staleValue |->
                        IF isStale(cache[key], now) THEN cache[key].value
                        ELSE "undefined",
                      flip |-> ~lookups[g].flip]]
  /\ UNCHANGED <<now, ticks, rpcFrozen, delayVars, batchVars, poolVars>>

\* executeRequestWithRetry resolves: the result is cached and returned
LiveResolves(g) ==
  /\ lookups[g].pc = "fetching"
  /\ \E v \in LiveValues :
       /\ cache' = getBlockResume(cache, lookups[g].key,
                                  [ok |-> TRUE, value |-> v], now)
       /\ lookups' = [lookups EXCEPT ![g].pc = "returned", ![g].value = v]
  /\ UNCHANGED <<now, ticks, rpcFrozen, delayVars, batchVars, poolVars>>

\* executeRequestWithRetry throws (retries exhausted, a non-retryable error
\* or the breaker open): the lookup throws the same error
LiveRejects(g) ==
  /\ lookups[g].pc = "fetching"
  /\ cache' = getBlockResume(cache, lookups[g].key,
                             [ok |-> FALSE, value |-> "error"], now)
  /\ lookups' = [lookups EXCEPT ![g].pc = "threw", ![g].value = "error"]
  /\ UNCHANGED <<now, ticks, rpcFrozen, delayVars, batchVars, poolVars>>

NextCache ==
  \/ \E g \in LookupIds, key \in CacheKeys : GetCached(g, key)
  \/ \E g \in LookupIds : LiveResolves(g)
  \/ \E g \in LookupIds : LiveRejects(g)
  \/ Tick

CacheSpec == InitCache /\ [][NextCache]_vars

\* ----------------------------------------------------------- batchRequest
\* The call of executeRequestWithRetry for an item is taken by what
\* batchRequest sees of it: it resolves with a value (an object without an
\* `error` field), with null, with an object that has an `error` field, or
\* it rejects.
ItemOutcomes == {"value", "null", "errorField", "rejected"}

\* items.slice(i, i + batchSize), as the first and last item (from 1)
slice(i, size, n) == [lo |-> i, hi |-> Min(i + size - 1, n)]

\* batch.map(item => this.executeRequestWithRetry(method, item).catch(...))
Dispatch(b, lo) ==
  LET chunk == slice(lo, b.batchSize, b.n)
  IN [b EXCEPT !.pc = "awaiting", !.i = lo,
               !.outcome = [k \in ItemIds |->
                              IF k \in chunk.lo..chunk.hi THEN "pending"
                              ELSE b.outcome[k]],
               !.dispatched = Append(@, chunk)]

\* batchResults.forEach from item k on: [b, threw]
RECURSIVE ForEach(_, _, _)
ForEach(b, k, hi) ==
  IF k > hi THEN [b |-> b, threw |-> FALSE]
  ELSE IF b.outcome[k] = "null"
  THEN [b |-> b, threw |-> TRUE]      \* TypeError reading result.error
  ELSE IF b.outcome[k] = "value"
  THEN ForEach([b EXCEPT !.results = Append(@, [of |-> k])], k + 1, hi)
  ELSE IF b.outcome[k] = "rejected"
  THEN ForEach([b EXCEPT !.errors =
                  Append(@, [of |-> k, item |-> k, error |-> "rejected"])],
               k + 1, hi)
  ELSE ForEach([b EXCEPT !.errors =
                  Append(@, [of |-> k, item |-> 0, error |-> "field"])],
               k + 1, hi)

\* errors.push(...batch.map(item => ({ error, item })))
RECURSIVE PushAll(_, _, _)
PushAll(errors, k, hi) ==
  IF k > hi THEN errors
  ELSE PushAll(Append(errors, [of |-> k, item |-> k, error |-> "TypeError"]),
               k + 1, hi)

\* the loop of batchRequest after processBatch(batch) has returned
AfterChunk(b) ==
  IF slice(b.i, b.batchSize, b.n).hi < b.n
  THEN [b EXCEPT !.pc = "gapWait", !.retryCount = 0]
  ELSE [b EXCEPT !.pc = "done", !.retryCount = 0]

\* processBatch after `await Promise.all(batchPromises)`
processBatch(b) ==
  LET chunk == slice(b.i, b.batchSize, b.n)
      r == ForEach(b, chunk.lo, chunk.hi)
  IN IF ~r.threw THEN AfterChunk(r.b)
     ELSE IF r.b.retryCount < batchRetries
     THEN [r.b EXCEPT !.pc = "retryWait"]
     ELSE AfterChunk([r.b EXCEPT
                        !.errors = PushAll(@, chunk.lo, chunk.hi)])

PendingItems(b) == {k \in ItemIds : b.outcome[k] = "pending"}
notBatch == <<now, ticks, rpcFrozen, delayVars, cacheVars, poolVars>>

\* batchRequest(method, items, batchSize) up to its first suspension
BatchRequest(n, size) ==
  /\ batchReq.pc = "idle"
  /\ batchReq' =
       IF n = 0 THEN [batchReq EXCEPT !.pc = "done", !.batchSize = size]
       ELSE Dispatch([batchReq EXCEPT !.n = n, !.batchSize = size], 1)
  /\ UNCHANGED notBatch

\* the call of item k settles; when it is the last of its chunk,
\* Promise.all resolves and processBatch goes on
ItemSettles(k, outcome) ==
  /\ batchReq.pc = "awaiting"
  /\ batchReq.outcome[k] = "pending"
  /\ LET b == [batchReq EXCEPT !.outcome[k] = outcome]
     IN batchReq' = IF PendingItems(b) = {} THEN processBatch(b) ELSE b
  /\ UNCHANGED notBatch

\* the 2 s wait of the catch block is over: processBatch(batch, retryCount + 1)
BatchRetryWaitDone ==
  /\ batchReq.pc = "retryWait"
  /\ batchReq' = Dispatch([batchReq EXCEPT !.retryCount = @ + 1], batchReq.i)
  /\ UNCHANGED notBatch

\* the 1 s wait between two chunks is over
BatchGapWaitDone ==
  /\ batchReq.pc = "gapWait"
  /\ batchReq' = Dispatch(batchReq, batchReq.i + batchReq.batchSize)
  /\ UNCHANGED notBatch

NextBatch ==
  \/ \E n \in 0..MaxItems, size \in 1..MaxBatchSize : BatchRequest(n, size)
  \/ \E k \in ItemIds, outcome \in ItemOutcomes : ItemSettles(k, outcome)
  \/ BatchRetryWaitDone
  \/ BatchGapWaitDone

BatchSpec == Init /\ [][NextBatch]_vars

\* ----------------------------------------------- BatchService, dataWorker
KnownTypes == {"wallet_analysis", "transaction_processing", "token_metrics"}
TaskTypes == {"wallet_analysis", "unknown_type"}
\* the functions that dataWorker.js defines besides processTask
DefinedHandlers == {}
handlerOf(type) ==
  CASE type = "wallet_analysis" -> "analyzeWallet"
    [] type = "transaction_processing" -> "processTransaction"
    [] OTHER -> "calculateTokenMetrics"

\* processTask(task): a value, or the message of the error it throws
processTask(task) ==
  IF task.type \in KnownTypes
  THEN IF handlerOf(task.type) \in DefinedHandlers
       THEN [ok |-> TRUE, value |-> task, error |-> "none"]
       ELSE [ok |-> FALSE, value |-> task, error |-> "is not defined"]
  ELSE [ok |-> FALSE, value |-> task, error |-> "Unknown task type"]

\* the message handler of dataWorker: the results it posts for a batch
RECURSIVE runBatch(_, _)
runBatch(batch, acc) ==
  IF batch = <<>> THEN acc
  ELSE LET task == Head(batch)
           r == processTask(task)
       IN runBatch(Tail(batch),
            IF r.ok
            THEN [acc EXCEPT !.successes = Append(@, [of |-> task])]
            ELSE [acc EXCEPT !.errors =
                    Append(@, [task |-> task, error |-> r.error])])

PoolState ==
  [workerPool |-> workerPool, taskQueue |-> taskQueue,
   threads |-> threads, procs |-> procs]
SetPool(P) ==
  /\ workerPool' = P.workerPool
  /\ taskQueue' = P.taskQueue
  /\ threads' = P.threads
  /\ procs' = P.procs

\* worker.isBusy = v, for what `worker` refers to
SetBusy(P, ref, v) ==
  IF ref.kind = "slot" THEN [P EXCEPT !.workerPool[ref.slot].isBusy = v]
  ELSE P

\* tasks.slice(i, i + batchSize)
batchOf(p) ==
  SubSeq(p.tasks, p.i, Min(p.i + p.batchSize - 1, Len(p.tasks)))

SetMin(S) == CHOOSE x \in S : \A y \in S : x <= y
FreeSlots(P) == {s \in Slots : ~P.workerPool[s].isBusy}

\* the loop of processBatch: the call of _processBatchWithRetry for the
\* chunk at p.i, or the return
RECURSIVE StartChunk(_, _)
RECURSIVE _getAvailableWorker(_, _)
RECURSIVE _processWithWorker(_, _, _)
RECURSIVE Failed(_, _, _)

\* _getAvailableWorker and, when it finds an idle entry, the call of
\* _processWithWorker that follows it
_getAvailableWorker(P, c) ==
  IF FreeSlots(P) # {}
  THEN LET s == SetMin(FreeSlots(P))
       IN _processWithWorker(SetBusy(P, SlotRef(s), TRUE), c, SlotRef(s))
  ELSE [P EXCEPT !.taskQueue = Append(@, c), !.procs[c].pc = "waiting"]

\* _processWithWorker(worker, batch, timeout) up to the pending promise;
\* `worker.worker` of an object that is no pool entry is undefined, and
\* postMessage on it throws
_processWithWorker(P, c, ref) ==
  IF ref.kind # "slot" THEN Failed(P, c, "TypeError")
  ELSE LET h == P.workerPool[ref.slot].worker
       IN [P EXCEPT
             !.threads[h].inbox =
                IF P.threads[h].state = "alive"
                THEN Append(@, batchOf(P.procs[c])) ELSE @,
             !.threads[h].listeners =
                Append(@, [proc |-> c, slot |-> ref.slot, live |-> TRUE]),
             !.procs[c].pc = "processing",
             !.procs[c].worker = ref]

\* a wait of one second, whatever the attempt
backoffDelay_constant(attempt) == 1000

\* Math.pow(2, attempt) * 1000
backoffDelay(attempt) == Pow2(attempt) * 1000

\* the catch block of _processBatchWithRetry, and the one of processBatch
\* when the attempts are used up
Failed(P, c, error) ==
  LET p == P.procs[c]
  IN IF p.attempt + 1 <= retries
     THEN [P EXCEPT !.procs[c].attempt = @ + 1, !.procs[c].pc = "backoff",
                    !.procs[c].worker = NoRef,
                    !.procs[c].delay = backoffDelay(p.attempt + 1),
                    !.procs[c].waits = Append(@, backoffDelay(p.attempt + 1))]
     ELSE StartChunk(
            [P EXCEPT !.procs[c].errors =
                         @ \o [j \in 1..Len(batchOf(p)) |->
                                 [task |-> batchOf(p)[j], error |-> error]],
                      !.procs[c].i = @ + p.batchSize,
                      !.procs[c].attempt = 0,
                      !.procs[c].worker = NoRef], c)

StartChunk(P, c) ==
  IF P.procs[c].i > Len(P.procs[c].tasks)
  THEN [P EXCEPT !.procs[c].pc = "done"]
  ELSE _getAvailableWorker([P EXCEPT !.procs[c].waits = <<>>], c)

\* processBatch after _processBatchWithRetry has returned batchResults
Succeeded(P, c) ==
  LET p == P.procs[c]
  IN StartChunk(
       [P EXCEPT !.procs[c].results = @ \o p.batchResults.successes,
                 !.procs[c].errors = @ \o p.batchResults.errors,
                 !.procs[c].batchResults = NoMessage,
                 !.procs[c].i = @ + p.batchSize,
                 !.procs[c].attempt = 0,
                 !.procs[c].worker = NoRef], c)

\* _handleWorkerMessage(worker, message)
_handleWorkerMessage(P, worker) ==
  LET P1 == SetBusy(P, worker, FALSE)
  IN IF P1.taskQueue # <<>>
     THEN LET nextTask == Head(P1.taskQueue)
              P2 == SetBusy([P1 EXCEPT !.taskQueue = Tail(@)], worker, TRUE)
          IN [P2 EXCEPT !.procs[nextTask].pc = "granted",
                        !.procs[nextTask].worker = worker]
     ELSE P1

\* the listeners that _processWithWorker registered with once('message'),
\* in the order of their registration
RECURSIVE OnceListeners(_, _, _, _)
OnceListeners(P, h, listeners, result) ==
  IF listeners = <<>> THEN [P EXCEPT !.threads[h].listeners = <<>>]
  ELSE LET l == Head(listeners)
           P1 == IF P.workerPool[l.slot].worker = h
                 THEN SetBusy(P, SlotRef(l.slot), FALSE) ELSE P
           P2 == IF l.live
                 THEN [P1 EXCEPT !.procs[l.proc].pc = "resolved",
                                 !.procs[l.proc].batchResults = result]
                 ELSE P1
       IN OnceListeners(P2, h, Tail(listeners), result)

\* new Worker(...): the handle of a Worker not created before
NewHandle(P) ==
  SetMin({h \in Handles : P.threads[h].state = "unborn"} \cup {2 * maxWorkers})

\* _handleWorkerError(worker, error)
_handleWorkerError(P, worker) ==
  LET P1 == SetBusy(P, worker, FALSE)
      target == IF worker.kind = "slot"
                THEN P1.workerPool[worker.slot].worker ELSE 0
      found == {s \in Slots : P1.workerPool[s].worker = target}
  IN IF found # {}
     THEN LET newWorker == NewHandle(P1)
          IN [P1 EXCEPT
                !.workerPool[SetMin(found)] =
                   [worker |-> newWorker, isBusy |-> FALSE],
                !.threads[newWorker].state = "alive"]
     ELSE P1

\* a promise reaction of a processBatch call is waiting to run; it runs
\* before the next event or timer
Reactions == {c \in ProcIds : procs[c].pc \in {"granted", "resolved"}}
notPool == <<now, ticks, rpcFrozen, delayVars, cacheVars, batchVars>>
\* the task lists of a call: up to MaxTasks tasks, a task of a known type
\* first, tasks of unknown type after it, or one task of unknown type
TaskLists ==
  {[j \in 1..n |-> IF j = 1 THEN "wallet_analysis" ELSE "unknown_type"] :
     n \in 1..MaxTasks} \cup {<<"unknown_type">>}

\* processBatch(tasks, {batchSize}) up to its first suspension
ProcessBatch(c, types, size) ==
  /\ procs[c].pc = "idle"
  /\ \A d \in 1..(c - 1) : procs[d].pc # "idle"
  /\ Reactions = {}
  /\ SetPool(StartChunk(
       [PoolState EXCEPT
          !.procs[c].tasks =
             [j \in 1..Len(types) |->
                [proc |-> c, index |-> j, type |-> types[j]]],
          !.procs[c].batchSize = size], c))
  /\ UNCHANGED notPool

\* the worker thread h has worked through the batch at the head of its
\* inbox and posted the results; the main thread runs the listeners of the
\* 'message' event: _handleWorkerMessage with the message as its first
\* argument, then the once-listeners
WorkerReplies(h) ==
  /\ threads[h].state = "alive"
  /\ threads[h].inbox # <<>>
  /\ Reactions = {}
  /\ LET result == runBatch(Head(threads[h].inbox), NoMessage)
         P1 == [PoolState EXCEPT !.threads[h].inbox = Tail(@)]
         P2 == _handleWorkerMessage(P1, MessageRef)
     IN SetPool(OnceListeners(P2, h, P2.threads[h].listeners, result))
  /\ UNCHANGED notPool

\* the processBatch call c goes on after its await: with the `worker` it
\* was handed from the taskQueue, or with the results of its batch
ProcContinues(c) ==
  /\ c \in Reactions
  /\ SetPool(IF procs[c].pc = "granted"
             THEN _processWithWorker(PoolState, c, procs[c].worker)
             ELSE Succeeded(PoolState, c))
  /\ UNCHANGED notPool

\* the timeout of _processWithWorker fires before the worker's message
WorkerTimeout(c) ==
  /\ procs[c].pc = "processing"
  /\ Reactions = {}
  /\ LET P1 == [PoolState EXCEPT
                  !.threads = [h \in Handles |->
                     [@[h] EXCEPT !.listeners =
                        [j \in DOMAIN @ |->
                           IF @[j].proc = c /\ @[j].live
                           THEN [@[j] EXCEPT !.live = FALSE]
                           ELSE @[j]]]]]
     IN SetPool(Failed(SetBusy(P1, procs[c].worker, FALSE), c,
                       "Worker timeout"))
  /\ UNCHANGED notPool

\* the wait of 2^attempt seconds is over: the next attempt
BackoffDone(c) ==
  /\ procs[c].pc = "backoff"
  /\ Reactions = {}
  /\ SetPool(_getAvailableWorker([PoolState EXCEPT !.procs[c].delay = 0], c))
  /\ UNCHANGED notPool

\* the worker thread h dies of an uncaught error; the main thread runs the
\* listener of the 'error' event with the Error as its first argument
WorkerCrashes(h) ==
  /\ threads[h].state = "alive"
  /\ Reactions = {}
  /\ SetPool(_handleWorkerError(
       [PoolState EXCEPT !.threads[h].state = "dead",
                         !.threads[h].inbox = <<>>], ErrorRef))
  /\ UNCHANGED notPool

NextPool ==
  \/ \E c \in ProcIds, types \in TaskLists, size \in 1..MaxTasks :
       ProcessBatch(c, types, size)
  \/ \E h \in Handles : WorkerReplies(h)
  \/ \E c \in ProcIds : ProcContinues(c)
  \/ \E c \in ProcIds : WorkerTimeout(c)
  \/ \E c \in ProcIds : BackoffDone(c)
  \/ \E h \in Handles : WorkerCrashes(h)

PoolSpec == Init /\ [][NextPool]_vars

\* the timers fire, the promise reactions run, and a live worker answers
\* the batches posted to it; a worker thread may die at any time
PoolFairness ==
  /\ \A c \in ProcIds :
       /\ WF_vars(ProcContinues(c))
       /\ WF_vars(WorkerTimeout(c))
       /\ WF_vars(BackoffDone(c))
  /\ \A h \in Handles : WF_vars(WorkerReplies(h))

PoolLiveSpec == PoolSpec /\ PoolFairness

\* ----------------------------------------------------------------- claims
\* the breaker is open and resetTimeout has not elapsed since the last failure
BreakerBlocks(cb, t) == cb.isOpen /\ t - cb.lastFailureTime <= resetTimeout

\* a provider call rejected in this step
CallFailed == metrics'.errorCount > metrics.errorCount
\* a provider call resolved in this step
CallSucceeded == metrics'.requestCount > metrics.requestCount
\* an executeRequest call passed the breaker check in this step
CallAdmitted ==
  metrics'.requestCount + metrics'.errorCount
    + Cardinality({c \in CallIds : calls'[c].pc # "free"}) > Started
\* provider.connection[method] was invoked in this step
ProviderInvoked ==
  metrics'.requestCount + metrics'.errorCount
    + Cardinality({c \in CallIds : calls'[c].pc = "invoked"}) > providerCalls

\* C1: once failureThreshold or more provider calls in a row have failed the
\* breaker is open, and while it is open and resetTimeout has not elapsed
\* since lastFailureTime no executeRequest call gets past the breaker check
\* (it throws the circuit-open error and no provider is invoked for it).
C1_OpenAfterConsecutiveFailures ==
  [][/\ (CallFailed /\ consecutiveFailures' >= failureThreshold)
          => circuitBreaker'.isOpen
     /\ BreakerBlocks(circuitBreaker, now) => ~CallAdmitted]_vars

\* C2: no provider call is invoked while the breaker is open and
\* resetTimeout has not elapsed since lastFailureTime, whatever the
\* interleaving of the calls that passed the breaker check earlier.
C2_NoProviderCallWhileOpen ==
  [][ProviderInvoked => ~BreakerBlocks(circuitBreaker', now')]_vars

\* C3: a successful provider call resets failureCount to 0 and leaves the
\* breaker closed, so the breaker opens only when failureThreshold calls in
\* a row have failed.
C3_SuccessResetsFailureCount ==
  [][/\ CallSucceeded
          => circuitBreaker'.failureCount = 0 /\ ~circuitBreaker'.isOpen
     /\ (~circuitBreaker.isOpen /\ circuitBreaker'.isOpen)
          => consecutiveFailures' >= failureThreshold]_vars

\* the call that _checkCircuitBreaker let through on expiry is still alive
Probing == \E c \in CallIds : calls[c].pc # "free" /\ calls[c].probe
ProbeFailed ==
  /\ CallFailed
  /\ \E c \in CallIds :
       calls[c].pc = "invoked" /\ calls[c].probe /\ calls'[c].pc = "free"

\* C4: the call let through once resetTimeout has elapsed on an open breaker
\* is a probe: when it fails the breaker is open again at once, and no other
\* call gets past the breaker check before the probe has completed.
C4_HalfOpenProbe ==
  [][/\ ProbeFailed => circuitBreaker'.isOpen
     /\ Probing => ~CallAdmitted]_vars

\* the 15 s timeout promise won the race of an attempt in this step
AttemptTimedOut ==
  \E r \in ReqIds :
    /\ reqs[r].pc = "racing"
    /\ reqs'[r].pc \in {"backoff", "threw"}
    /\ reqs'[r].lastError = "RequestTimeout"
BreakerCountsFailure ==
  /\ circuitBreaker'.failureCount = circuitBreaker.failureCount + 1
  /\ circuitBreaker'.lastFailureTime = now

\* C5: every failed outbound call adds one to failureCount and stamps
\* lastFailureTime, whichever provider served it, and so does an attempt of
\* executeRequestWithRetry that loses the race against the 15 s timeout.
C5_EveryFailureCounts ==
  [][/\ CallFailed => BreakerCountsFailure
     /\ AttemptTimedOut => BreakerCountsFailure]_vars

\* C6: no provider is sent more than maxRequests calls within a window of
\* length interval (admitted[n] holds the calls of the window that ends now).
C6_AtMostMaxRequestsPerWindow ==
  \A n \in ProviderNames : Len(admitted[n]) <= rateLimit(n).maxRequests

\* the job of call c ran _getOptimalProvider in this step
JobRan(c) ==
  /\ calls'[c].pc \in {"invoked", "waiting"}
  /\ calls[c].pc # calls'[c].pc \/ calls[c].due # calls'[c].due

\* C7: the provider _getOptimalProvider returns is healthy and not at its
\* rate limit in the current window; when no provider is usable it returns
\* none and throws nothing: the job waits providerWait and selects again.
C7_SelectsOnlyUsableProvider ==
  [][\A c \in CallIds :
       JobRan(c) =>
         IF calls'[c].pc = "invoked"
         THEN Usable(providers'[calls'[c].provider], calls'[c].provider, now')
         ELSE /\ \A n \in ProviderNames : ~Usable(providers'[n], n, now')
              /\ calls'[c].due = now' + providerWait]_vars

\* a job waits because the primary is unhealthy and the fallback, healthy,
\* is at its rate limit
C7_Witness ==
  \E c \in CallIds :
    /\ calls[c].pc = "waiting"
    /\ ~providers["primary"].isHealthy
    /\ providers["fallback"].isHealthy
    /\ ~Usable(providers["fallback"], "fallback", now)

\* attempts before attempt i that timed out on the primary
PrimaryTimeouts(log, i) ==
  Cardinality({j \in 1..(i - 1) :
                 log[j].provider = "primary" /\ log[j].outcome = "RequestTimeout"})

\* C8: once three attempts of a request have timed out on the primary, a
\* later attempt is sent to the fallback when the fallback is healthy and
\* under its rate limit, so the caller does not see the primary's timeout.
C8_FailoverAfterPrimaryTimeouts ==
  \A r \in ReqIds :
    \A i \in DOMAIN reqs[r].log :
      (PrimaryTimeouts(reqs[r].log, i) >= 3 /\ reqs[r].log[i].fallbackUsable)
        => reqs[r].log[i].provider = "fallback"

\* the messages the claim lists as retryable
C9_Retryable(error) ==
  \E i \in DOMAIN ErrorWords[error] :
    ErrorWords[error][i] \in
      {"Connection refused", "timeout", "Too Many Requests",
       "Service Unavailable"}

\* C9: an error that is not retryable ends executeRequestWithRetry at once:
\* no backoff delay is taken after it and no attempt follows it.
C9_NonRetryablePropagates ==
  \A r \in ReqIds :
    /\ \A i \in 1..(Len(reqs[r].log) - 1) : C9_Retryable(reqs[r].log[i].outcome)
    /\ reqs[r].pc = "backoff" => C9_Retryable(reqs[r].lastError)
    /\ (reqs[r].lastError # "none" /\ ~C9_Retryable(reqs[r].lastError))
         => reqs[r].pc = "threw"

\* a request that threw a non-retryable error of its second attempt, with
\* attempts left
C9_Witness ==
  \E r \in ReqIds :
    /\ reqs[r].pc = "threw"
    /\ ~C9_Retryable(reqs[r].lastError)
    /\ Len(reqs[r].log) = 2
    /\ reqs[r].attempt < reqs[r].maxRetries

\* C10: executeRequestWithRetry makes at most maxRetries + 1 attempts; when
\* every attempt fails with a retryable error (a timeout is one) it makes
\* exactly that many and throws the error of the last one.
C10_BoundedRetries ==
  \A r \in ReqIds :
    LET log == reqs[r].log
    IN /\ Len(log) <= maxRetries + 1
       /\ reqs[r].pc = "threw" =>
            /\ reqs[r].lastError = log[Len(log)].outcome
            /\ (\A i \in DOMAIN log : C9_Retryable(log[i].outcome))
                 => Len(log) = maxRetries + 1
       /\ \A i \in DOMAIN log :
            (log[i].outcome = "RequestTimeout" /\ i <= maxRetries)
              => (i < Len(log) \/ reqs[r].pc = "backoff")

\* a request that threw after maxRetries + 1 failed attempts, one of them a
\* timeout
C10_Witness ==
  \E r \in ReqIds :
    /\ reqs[r].pc = "threw"
    /\ Len(reqs[r].log) = maxRetries + 1
    /\ \E i \in DOMAIN reqs[r].log : reqs[r].log[i].outcome = "RequestTimeout"
    /\ \E i \in DOMAIN reqs[r].log : reqs[r].log[i].outcome = "ConnRefused"

\* C11: ignoring jitter, the retry delays never exceed maxDelay and never
\* decrease from one attempt to the next, for every attempt from 0 to
\* maxRetries and every configuration of initialDelay and maxDelay.
C11_DelayBoundedMonotone ==
  /\ \A n \in DOMAIN delays : delays[n].delay <= retryOptions.maxDelay
  /\ \A n \in DOMAIN delays :
       n + 1 \in DOMAIN delays => delays[n + 1].delay >= delays[n].delay
  /\ retryOptions.initialDelay # 0 =>
       \A n \in 0..retryOptions.maxRetries :
         /\ retryDelay(retryOptions, n) <= retryOptions.maxDelay
         /\ retryDelay(retryOptions, n + 1) >= retryDelay(retryOptions, n)

\* all the delays of a run were taken; the cap was reached after the delay
\* had grown
C11_Witness ==
  /\ Len(delays) = maxRetries
  /\ delays[1].delay < delays[2].delay
  /\ delays[maxRetries].delay = retryOptions.maxDelay

\* a lookup of key k started in this step
LookupStarted(g, k) ==
  lookups'[g].flip # lookups[g].flip /\ lookups'[g].key = k

\* C12: a lookup of a key whose entry is younger than the TTL returns the
\* cached value at once and does not enter the live path, whatever the
\* cached value is (a null result included); a lookup of a key whose entry
\* is older than the TTL enters the live path.
C12_FreshEntryServedFromCache ==
  [][\A g \in LookupIds, k \in CacheKeys :
       (LookupStarted(g, k) /\ cache[k].present) =>
         /\ now - cache[k].now < cacheTimeout =>
              /\ lookups'[g].pc = "returned"
              /\ lookups'[g].value = cache[k].value
         /\ now - cache[k].now > cacheTimeout =>
              lookups'[g].pc = "fetching"]_vars

\* a lookup ended with an error in this step
LookupThrew(g) == lookups[g].pc = "fetching" /\ lookups'[g].pc = "threw"

\* C13: the step in which a lookup ends with an error leaves the cache as
\* it was, and the only cache write of a lookup is the one after its live
\* path has resolved, so a lookup that throws has written nothing.
C13_ErrorsNeverCached ==
  [][/\ \A g \in LookupIds : LookupThrew(g) => cache' = cache
     /\ \A k \in CacheKeys :
          (cache'[k].present /\ cache'[k] # cache[k]) =>
            \E g \in LookupIds :
              /\ lookups[g].pc = "fetching" /\ lookups[g].key = k
              /\ lookups'[g].pc = "returned"
              /\ lookups'[g].value = cache'[k].value]_vars

\* a lookup has thrown while the cache holds a value for its key
C13_Witness ==
  \E g \in LookupIds :
    /\ lookups[g].pc = "threw"
    /\ cache[lookups[g].key].present
    /\ cache[lookups[g].key].value = "data"

\* C14: a lookup that found an expired entry for its key does not end with
\* an error: when its live path fails the caller gets the stale value.
C14_StaleServedOnFailure ==
  \A g \in LookupIds :
    Truthy(lookups[g].staleValue) =>
      /\ lookups[g].pc # "threw"
      /\ lookups[g].pc = "returned" =>
           lookups[g].value \in LiveValues \cup {lookups[g].staleValue}

\* provider calls invoked and not yet settled
InFlight == {c \in CallIds : calls[c].pc = "invoked"}

\* C15: at every moment at most `concurrency` provider calls are in flight,
\* the calls of attempts that the retry timeout has abandoned included.
C15_BoundedInFlight == Cardinality(InFlight) <= concurrency

\* the calls of two timed-out attempts fill the queue's concurrency and the
\* call of the next attempt waits in the queue
C15_Witness ==
  /\ Cardinality({c \in InFlight : calls[c].owner = 0}) = concurrency
  /\ requestQueue # <<>>
  /\ \E r \in ReqIds : reqs[r].pc = "racing" /\ reqs[r].attempt = 2

\* entries of a result list that stand for item k
ResultsOf(b, k) == {j \in DOMAIN b.results : b.results[j].of = k}
ErrorsWithItem(b, k) == {j \in DOMAIN b.errors : b.errors[j].item = k}

\* C16: when batchRequest returns, every item of the input appears exactly
\* once, either as a value in results or as {error, item} in errors, and
\* success + failed = items.length, whatever the underlying calls settled
\* with (null and objects with an `error` field included).
C16_CompletePartition ==
  batchReq.pc = "done" =>
    /\ \A k \in 1..batchReq.n :
         Cardinality(ResultsOf(batchReq, k))
           + Cardinality(ErrorsWithItem(batchReq, k)) = 1
    /\ Len(batchReq.results) + Len(batchReq.errors) = batchReq.n

NonDecreasing(seq) ==
  \A a, c \in DOMAIN seq : a < c => seq[a].of <= seq[c].of
NumChunks(b) == (b.n + b.batchSize - 1) \div b.batchSize

\* C17: batchRequest dispatches chunks of batchSize consecutive items in
\* input order (the first chunk first, then each time the chunk after the
\* one dispatched last, or that one again when processBatch retries it), no
\* chunk is dispatched while a call of an earlier dispatch is unsettled,
\* and results keeps the order of the items; when no chunk was retried, the
\* items that resolved with a value are in results once each in input order
\* and the items that rejected are in errors once each as {error, item}.
C17_ChunksInOrder ==
  LET b == batchReq
      d == b.dispatched
  IN /\ \A j \in DOMAIN d :
          /\ (d[j].lo - 1) % b.batchSize = 0
          /\ d[j].hi = Min(d[j].lo + b.batchSize - 1, b.n)
          /\ d[j].lo <= d[j].hi
     /\ d # <<>> => d[1].lo = 1
     /\ \A j \in 1..(Len(d) - 1) :
          d[j + 1].lo \in {d[j].lo, d[j].lo + b.batchSize}
     /\ d # <<>> => PendingItems(b) \subseteq d[Len(d)].lo..d[Len(d)].hi
     /\ b.pc = "done" /\ b.n > 0 => d[Len(d)].hi = b.n
     /\ NonDecreasing(b.results)
     /\ b.pc = "done" /\ Len(d) = NumChunks(b) =>
          /\ \A k \in 1..b.n :
               /\ Cardinality(ResultsOf(b, k))
                    = IF b.outcome[k] = "value" THEN 1 ELSE 0
               /\ Cardinality(ErrorsWithItem(b, k))
                    = IF b.outcome[k] = "rejected" THEN 1 ELSE 0
          /\ NonDecreasing(b.errors)

\* the call with items [sigA, sigB, sigC], batchSize 2 and sigB rejecting
\* has returned
C17_ExampleReturned ==
  /\ batchReq.pc = "done"
  /\ batchReq.n = 3 /\ batchReq.batchSize = 2
  /\ batchReq.dispatched = <<[lo |-> 1, hi |-> 2], [lo |-> 3, hi |-> 3]>>
  /\ batchReq.results = <<[of |-> 1], [of |-> 3]>>
  /\ batchReq.errors = <<[of |-> 2, item |-> 2, error |-> "rejected"]>>

UnknownTasks(p) ==
  {j \in DOMAIN p.tasks : p.tasks[j].type \notin KnownTypes}
ErrorsOfTask(p, j) ==
  {e \in DOMAIN p.errors : p.errors[e].task = p.tasks[j]}

\* C18: a processBatch call with N tasks of which k have an unknown type
\* returns exactly N - k results and k errors; each error holds the task
\* that failed, and exactly the tasks of unknown type fail.
C18_UnknownTypeIsolated ==
  \A c \in ProcIds :
    LET p == procs[c]
    IN p.pc = "done" =>
         /\ Len(p.results) = Len(p.tasks) - Cardinality(UnknownTasks(p))
         /\ Len(p.errors) = Cardinality(UnknownTasks(p))
         /\ \A j \in DOMAIN p.tasks :
              Cardinality(ErrorsOfTask(p, j))
                = IF j \in UnknownTasks(p) THEN 1 ELSE 0

\* the worker of pool entry s dies in this step
Crashes(s) ==
  /\ threads[workerPool[s].worker].state = "alive"
  /\ threads'[workerPool[s].worker].state = "dead"

\* C19: when a worker dies, _handleWorkerError marks its pool entry idle
\* and puts a new, live worker at the same index of workerPool: the pool
\* keeps its capacity.
C19_CrashedWorkerReplaced ==
  [][\A s \in Slots :
       Crashes(s) =>
         /\ ~workerPool'[s].isBusy
         /\ workerPool'[s].worker # workerPool[s].worker
         /\ threads'[workerPool'[s].worker].state = "alive"]_vars

\* the main thread handles a result message of the worker of entry s
Replies(s) ==
  LET h == workerPool[s].worker
  IN /\ threads[h].state = "alive" /\ threads'[h].state = "alive"
     /\ threads[h].inbox # <<>>
     /\ threads'[h].inbox = Tail(threads[h].inbox)

\* C20: on a result message of a worker, _handleWorkerMessage marks that
\* worker's pool entry idle; when taskQueue is not empty, the entry is at
\* once busy again and handed to the call that has waited longest, which
\* leaves the queue (FIFO).
C20_SlotHandedToOldestWaiter ==
  [][\A s \in Slots :
       Replies(s) =>
         IF taskQueue = <<>>
         THEN ~workerPool'[s].isBusy /\ taskQueue' = <<>>
         ELSE /\ taskQueue' = Tail(taskQueue)
              /\ workerPool'[s].isBusy
              /\ procs'[Head(taskQueue)].worker = SlotRef(s)]_vars

\* the once-listeners of call c whose timeout has fired
StaleListeners(th, c) ==
  {<<h, j>> \in Handles \X (1..(MaxProcs * (retries + 1) * MaxTasks)) :
     /\ j \in DOMAIN th[h].listeners
     /\ th[h].listeners[j].proc = c
     /\ ~th[h].listeners[j].live}
\* the timeout of the dispatch of call c fires in this step
TimedOut(c) ==
  /\ procs[c].pc = "processing"
  /\ Cardinality(StaleListeners(threads', c))
       > Cardinality(StaleListeners(threads, c))
TimeoutErrors(p) ==
  [j \in 1..Len(batchOf(p)) |->
     [task |-> batchOf(p)[j], error |-> "Worker timeout"]]

\* C21: when the timeout of a dispatch fires, the entry of the worker is
\* idle again and the attempt has failed: while attempt < retries the call
\* waits 2^attempt seconds before its next attempt, and after retries + 1
\* attempts every task of the chunk is appended to errors and the call goes
\* on with the next chunk. The attempts of a chunk never exceed
\* retries + 1 and the waits between them are 2, 4, 8, ... seconds.
C21_TimeoutBoundedRetry ==
  [][/\ \A c \in ProcIds :
          TimedOut(c) =>
            LET p == procs[c]
                q == procs'[c]
                s == p.worker.slot
            IN IF p.attempt < retries
               THEN /\ q.pc = "backoff"
                    /\ q.attempt = p.attempt + 1
                    /\ q.delay = Pow2(q.attempt) * 1000
                    /\ ~workerPool'[s].isBusy
                    /\ q.errors = p.errors /\ q.i = p.i
               ELSE /\ q.errors = p.errors \o TimeoutErrors(p)
                    /\ q.i = p.i + p.batchSize
                    /\ q.results = p.results
                    /\ workerPool'[s].isBusy =>
                         q.pc = "processing" /\ q.worker = SlotRef(s)
     /\ \A c \in ProcIds :
          LET q == procs'[c]
          IN /\ q.attempt <= retries
             /\ Len(q.waits) <= retries
             /\ \A j \in DOMAIN q.waits :
                  /\ q.waits[j] = Pow2(j) * 1000
                  /\ j > 1 => q.waits[j] > q.waits[j - 1]]_vars

\* a chunk was given up after retries + 1 attempts, the last of which
\* timed out
C21_Witness ==
  \E c \in ProcIds :
    /\ procs[c].pc = "done"
    /\ Len(procs[c].waits) = retries
    /\ procs[c].errors # <<>>
    /\ procs[c].errors[Len(procs[c].errors)].error = "Worker timeout"

\* C22: no worker ever has more than one batch to work on: a batch is
\* posted to a worker only when the worker has answered every batch posted
\* to it before.
C22_OneDispatchPerWorker ==
  \A h \in Handles : Len(threads[h].inbox) <= 1

ResultsOfTask(p, j) ==
  {r \in DOMAIN p.results : p.results[r].of = p.tasks[j]}
IsPrefix(a, b) == Len(a) <= Len(b) /\ SubSeq(b, 1, Len(a)) = a

\* C23: the results and errors a processBatch call has collected are never
\* changed afterwards, and when the call returns every task it was given
\* is exactly once in results or in errors, so that successful + failed =
\* total, whatever workers crashed or timed out.
C23_NoTaskDropped ==
  [][\A c \in ProcIds :
       LET p == procs[c]
           q == procs'[c]
       IN /\ p.pc # "idle" =>
               IsPrefix(p.results, q.results) /\ IsPrefix(p.errors, q.errors)
          /\ q.pc = "done" =>
               /\ \A j \in DOMAIN q.tasks :
                    Cardinality(ResultsOfTask(q, j))
                      + Cardinality(ErrorsOfTask(q, j)) = 1
               /\ Len(q.results) + Len(q.errors) = Len(q.tasks)]_vars

\* C28: a dispatch resolves with the results the worker produced for the
\* batch of that dispatch, and a message of the worker marks a pool entry
\* idle only when the call it resolves holds that entry.
C28_ReplyMatchesDispatch ==
  [][\A c \in ProcIds :
       /\ procs[c].pc = "processing" /\ procs'[c].pc = "resolved" =>
            procs'[c].batchResults = runBatch(batchOf(procs[c]), NoMessage)
       /\ procs[c].pc = "processing" /\ procs'[c].pc = "processing" =>
            workerPool'[procs[c].worker.slot].isBusy]_vars

\* C29: every processBatch call eventually returns.
C29_EveryCallReturns ==
  \A c \in ProcIds : (procs[c].pc # "idle") ~> (procs[c].pc = "done")

\* C30: errorCount never exceeds requestCount, so that the error rate
\* errorCount / requestCount lies between 0 and 1 when requestCount > 0,
\* and the errors counter of the method is the number of its failed calls
\* (every failed call adds one to errorCount).
C30_ErrorsAreRequests ==
  /\ metrics.errorCount <= metrics.requestCount
  /\ metrics.methodStats.errors = metrics.errorCount

\* the probe of provider n settles in this step
ProbeSettled(n) == healthCheck.pc = n /\ healthCheck'.pc # n

\* C24: a probe that succeeds sets the provider's isHealthy to true and its
\* failure counter to 0, a probe that fails sets isHealthy to false; the
\* flag is kept until the provider's next probe, and a job that selects
\* while a provider is healthy and under its rate limit gets that provider
\* when it is the current one or the other one is not usable: a provider
\* marked unhealthy is selected again after its next successful probe.
C24_ProbeSetsHealth ==
  [][\A n \in ProviderNames :
       /\ ProbeSettled(n) =>
            /\ healthCheck'.outcome \in {"ok", "failed"}
            /\ healthCheck'.outcome = "ok" =>
                 providers'[n].isHealthy /\ failureCounts'[n] = 0
            /\ healthCheck'.outcome = "failed" => ~providers'[n].isHealthy
       /\ ~ProbeSettled(n) =>
            providers'[n].isHealthy = providers[n].isHealthy
       /\ \A c \in CallIds :
            /\ JobRan(c)
            /\ metrics' = metrics
            /\ Usable(providers[n], n, now)
            /\ \/ currentProvider = n
               \/ ~Usable(providers[Other(n)], Other(n), now)
            => calls'[c].pc = "invoked" /\ calls'[c].provider = n]_vars

\* a call is sent to a provider that a probe had marked unhealthy, after a
\* later probe has made it healthy again
C24_Witness ==
  \E c \in CallIds, n \in ProviderNames :
    /\ calls[c].pc = "invoked" /\ calls[c].provider = n
    /\ healthCheck.restored[n] > 0
    /\ admitted[n] # <<>>
    /\ admitted[n][Len(admitted[n])] > healthCheck.restored[n]

\* C25: a _checkRateLimit call that returns false leaves the provider as it
\* was; a job whose selection is refused by the rate limit of every
\* provider it checks changes no provider, and a job that moves to the
\* other provider because the current one is at its limit leaves the
\* current one unchanged.
C25_DisallowedCheckNoEffect ==
  [][/\ \A n \in ProviderNames :
          LET r == _checkRateLimit(providers[n], n, now)
          IN ~r.allowed => r.provider = providers[n]
     /\ \A c \in CallIds :
          JobRan(c) /\ metrics' = metrics =>
            /\ calls'[c].pc = "waiting" => providers' = providers
            /\ /\ calls'[c].pc = "invoked"
               /\ calls'[c].provider # currentProvider
               => providers'[currentProvider] = providers[currentProvider]]_vars

\* a job waits because both providers, healthy, refused it at their limits
C25_Witness ==
  \E c \in CallIds :
    /\ calls[c].pc = "waiting"
    /\ \A n \in ProviderNames :
         /\ providers[n].isHealthy
         /\ ~_checkRateLimit(providers[n], n, now).allowed

\* C26: a provider's isHealthy flag changes only when a probe of the health
\* check settles, and a provider's requestCount changes only to what
\* _checkRateLimit makes of it, never through executeRequest.
C26_SingleOwnership ==
  [][\A n \in ProviderNames :
       /\ providers'[n].isHealthy # providers[n].isHealthy => ProbeSettled(n)
       /\ providers'[n].requestCount # providers[n].requestCount =>
            providers'[n].requestCount
              = _checkRateLimit(providers[n], n, now).provider.requestCount]_vars

\* the attempt of request r that starts in this step is refused by the
\* open breaker
RefusedByBreaker(r) ==
  /\ Len(reqs'[r].log) = Len(reqs[r].log) + 1
  /\ reqs'[r].log[Len(reqs'[r].log)].outcome = "CircuitOpen"

\* C27: when executeRequest rejects because the breaker is open,
\* executeRequestWithRetry throws that error at once: the attempt makes no
\* provider call, no backoff wait is taken and no attempt follows.
C27_CircuitOpenFailsFast ==
  [][\A r \in ReqIds :
       /\ RefusedByBreaker(r) =>
            /\ reqs'[r].pc = "threw"
            /\ reqs'[r].lastError = "CircuitOpen"
            /\ reqs'[r].due = 0
            /\ reqs'[r].log[Len(reqs'[r].log)].provider = "none"
            /\ providerCalls' = providerCalls
            /\ calls' = calls
       /\ \A i \in DOMAIN reqs'[r].log :
            reqs'[r].log[i].outcome = "CircuitOpen" =>
              i = Len(reqs'[r].log) /\ reqs'[r].pc = "threw"]_vars

\* the second attempt of a request was refused by the open breaker after
\* its first attempt had failed with a retryable error
C27_Witness ==
  \E r \in ReqIds :
    /\ reqs[r].pc = "threw"
    /\ reqs[r].lastError = "CircuitOpen"
    /\ Len(reqs[r].log) = 2
    /\ reqs[r].attempt < reqs[r].maxRetries
    /\ circuitBreaker.isOpen

====
